---- MODULE Spec2Model ----
(***************************************************************************)
(* A model of loan_app.py: the amortization engine (calculate_loan and     *)
(* create_amortization_table) and the Streamlit session state with its     *)
(* widget callbacks and button handlers.                                   *)
(*                                                                         *)
(* Python floats are modelled as exact rationals <<n, d>> in lowest terms  *)
(* (d > 0): the rounding error of IEEE-754 arithmetic is abstracted away,  *)
(* the range limit of float ** int (OverflowError) is kept, scaled down.   *)
(* Python ints are TLA+ integers.                                          *)
(***************************************************************************)
EXTENDS Integers, Sequences, FiniteSets, TLC

VARIABLES
    \* st.session_state (src/loan_app.py:169-178)
    language, insurance_amount, insurance_percentage, principal, taeg,
    duration_months, duration_years, show_amortization_table,
    amortization_table, loan_data,
    \* what the last script run rendered through st.error
    error_shown,
    \* one direct call of calculate_loan in progress: its arguments, its
    \* position, the locals of calculate_loan and of the amortization loop
    pc, args, locals, month, remaining_balance, data, result,
    \* an earlier call kept for comparison: its arguments and its result
    prev

session == <<language, insurance_amount, insurance_percentage, principal, taeg,
             duration_months, duration_years, show_amortization_table,
             amortization_table, loan_data, error_shown>>
widgets == <<insurance_amount, insurance_percentage, principal, taeg,
             duration_months, duration_years, show_amortization_table,
             amortization_table, loan_data, error_shown>>
frame == <<pc, args, locals, month, remaining_balance, data, result, prev>>
vars == <<session, frame>>

----------------------------------------------------------------------------
\* Bounds of the model.

\* the longest duration a calculation is run for
MaxMonths == 3
\* float ** int raises OverflowError when the result reaches 2^FloatMaxExp
\* (sys.float_info.max_exp is 1024; scaled down with the durations)
FloatMaxExp == 2

----------------------------------------------------------------------------
\* Exact arithmetic on rationals <<n, d>>.

Abs(i) == IF i < 0 THEN -i ELSE i

RECURSIVE GCD(_, _)
GCD(a, b) == IF b = 0 THEN a ELSE GCD(b, a % b)

Q(n, d) ==
    LET g == GCD(Abs(n), Abs(d))
        s == IF d < 0 THEN -1 ELSE 1
    IN  <<(s * n) \div g, (s * d) \div g>>

R(i) == <<i, 1>>
Zero == R(0)
One == R(1)

Add(x, y) ==
    LET g == GCD(x[2], y[2])
        l == (x[2] \div g) * y[2]
    IN  Q(x[1] * (l \div x[2]) + y[1] * (l \div y[2]), l)

Neg(x) == <<-x[1], x[2]>>
Sub(x, y) == Add(x, Neg(y))

Mul(x, y) ==
    LET g1 == GCD(Abs(x[1]), y[2])
        g2 == GCD(Abs(y[1]), x[2])
    IN  Q((x[1] \div g1) * (y[1] \div g2), (x[2] \div g2) * (y[2] \div g1))

Div(x, y) == Mul(x, Q(y[2], y[1]))

Lt(x, y) == Sub(x, y)[1] < 0
Le(x, y) == Sub(x, y)[1] <= 0

RECURSIVE Pow(_, _)
Pow(x, k) == IF k = 0 THEN One ELSE Mul(x, Pow(x, k - 1))

RECURSIVE IntPow(_, _)
IntPow(b, k) == IF k = 0 THEN 1 ELSE b * IntPow(b, k - 1)

\* float ** int: the C library reports a range error, Python raises
\* OverflowError, when the result is 2^max_exp or more
PowOverflows(x, k) == ~Lt(Pow(x, k), R(IntPow(2, FloatMaxExp)))

\* round(x): to the nearest integer, a tie to the even one
RoundHalfEven(x) ==
    LET fl == x[1] \div x[2]
        twice == 2 * (x[1] - fl * x[2])
    IN  IF twice < x[2] THEN fl
        ELSE IF twice > x[2] THEN fl + 1
        ELSE IF fl % 2 = 0 THEN fl ELSE fl + 1

\* int(x): truncation toward zero
Trunc(x) == IF x[1] >= 0 THEN x[1] \div x[2] ELSE -((-x[1]) \div x[2])

\* f"{x:,.2f}": the sign and the hundredths, rounded half to even; the
\* grouping commas add nothing to the value shown.  A negative value that
\* rounds to zero keeps its sign ("-0.00").
Format2f(x) ==
    LET whole == Abs(x[1]) \div x[2]
        rest == Abs(x[1]) % x[2]
    IN  <<IF x[1] < 0 THEN "-" ELSE "", 100 * whole + RoundHalfEven(Q(100 * rest, x[2]))>>

\* the blank cell ""
Blank == <<>>

----------------------------------------------------------------------------
\* translations / get_translation

Languages == {"Francais", "English"}

translations ==
    [k \in {"Mois", "Capital Restant Du en Debut de Periode", "Capital Amorti",
            "Interets", "Assurance", "Total Echeance", "Total",
            "Les valeurs doivent etre positives."} |->
        CASE k = "Mois" -> [Francais |-> "Mois", English |-> "Month"]
          [] k = "Capital Restant Du en Debut de Periode" ->
                [Francais |-> "Capital Restant Du en Debut de Periode",
                 English |-> "Remaining Principal at Start of Period"]
          [] k = "Capital Amorti" -> [Francais |-> "Capital Amorti", English |-> "Principal Paid"]
          [] k = "Interets" -> [Francais |-> "Interets", English |-> "Interest"]
          [] k = "Assurance" -> [Francais |-> "Assurance", English |-> "Insurance"]
          [] k = "Total Echeance" -> [Francais |-> "Total Echeance", English |-> "Total Due"]
          [] k = "Total" -> [Francais |-> "Total", English |-> "Total"]
          [] k = "Les valeurs doivent etre positives." ->
                [Francais |-> "Les valeurs doivent etre positives.",
                 English |-> "Values must be positive."]]

\* reads st.session_state.language, passed here as lang
get_translation(text_key, lang) == translations[text_key][lang]

----------------------------------------------------------------------------
\* calculate_loan

\* a guard that also turns away a duration of one month
InvalidInput_OneMonthRejected(p, t, n) == Le(p, Zero) \/ Le(t, Zero) \/ n <= 1

\* line 22: the guard that raises ValueError
InvalidInput(p, t, n) == Le(p, Zero) \/ Le(t, Zero) \/ n <= 0

\* line 25
MonthlyRate(t) == Div(Div(t, R(100)), R(12))

\* the annuity formula with the -1 of its denominator left out
MonthlyPayment_NoMinusOne(p, r, n) ==
    Div(Mul(p, Mul(r, Pow(Add(One, r), n))), Pow(Add(One, r), n))

\* line 26
MonthlyPaymentWithoutInsurance(p, r, n) ==
    Div(Mul(p, Mul(r, Pow(Add(One, r), n))), Sub(Pow(Add(One, r), n), One))

\* lines 27-32: the figures of the returned dictionary
Summary(p, m, n, ins) ==
    LET monthly_payment_with_insurance == Add(m, ins)
        total_paid == Mul(monthly_payment_with_insurance, R(n))
        total_cost == Sub(total_paid, p)
    IN  [monthly_payment |-> monthly_payment_with_insurance,
         total_cost |-> total_cost,
         total_paid |-> total_paid,
         cost_percentage |-> Mul(Div(total_cost, p), R(100)),
         insurance_total_cost |-> Mul(ins, R(n))]

\* the payment with insurance handed to the table builder
TablePayment_WithInsurance(m, ins) == Add(m, ins)

\* line 35: the payment handed to create_amortization_table
TablePayment(m, ins) == m

----------------------------------------------------------------------------
\* create_amortization_table

\* range(1, duration_months): the last month left out
InRange_LastMonthMissing(mo, n) == mo < n

\* line 50: range(1, duration_months + 1)
InRange(mo, n) == mo <= n

\* lines 54-56: the new balance, floored at 0
NextBalance(balance, principal_payment) ==
    LET b == Sub(balance, principal_payment)
    IN  IF Lt(b, Zero) THEN Zero ELSE b

\* a row whose total due leaves the insurance out
LoopRow_TotalWithoutInsurance(mo, balance, r, m, ins) ==
    LET interest_payment == Mul(balance, r)
        principal_payment == Sub(m, interest_payment)
    IN  [month |-> mo,
         capital_beginning |-> balance,
         principal_payment |-> principal_payment,
         interest_payment |-> interest_payment,
         insurance_amount |-> ins,
         total_payment |-> m]

\* lines 51-58: the row appended in one iteration
LoopRow(mo, balance, r, m, ins) ==
    LET interest_payment == Mul(balance, r)
        principal_payment == Sub(m, interest_payment)
    IN  [month |-> mo,
         capital_beginning |-> balance,
         principal_payment |-> principal_payment,
         interest_payment |-> interest_payment,
         insurance_amount |-> ins,
         total_payment |-> Add(m, ins)]

\* lines 48-58: the whole loop, from iteration mo on
RECURSIVE RunLoop(_, _, _, _, _, _, _)
RunLoop(mo, balance, rows, r, m, n, ins) ==
    IF InRange(mo, n)
    THEN LET row == LoopRow(mo, balance, r, m, ins)
         IN  RunLoop(mo + 1, NextBalance(balance, row.principal_payment),
                     Append(rows, row), r, m, n, ins)
    ELSE [rows |-> rows, remaining_balance |-> balance]

RECURSIVE SumOf(_, _, _)
SumOf(rows, col, i) ==
    IF i > Len(rows) THEN Zero ELSE Add(rows[i][col], SumOf(rows, col, i + 1))

\* df[...].sum()
ColumnSum(rows, col) == SumOf(rows, col, 1)

\* line 60: the column labels
Columns(lang) ==
    <<get_translation("Mois", lang),
      get_translation("Capital Restant Du en Debut de Periode", lang),
      get_translation("Capital Amorti", lang),
      get_translation("Interets", lang),
      get_translation("Assurance", lang),
      get_translation("Total Echeance", lang)>>

\* lines 69-73: a monthly row as displayed
FormatRow(row) ==
    [month |-> row.month,
     capital_beginning |-> Format2f(row.capital_beginning),
     principal_payment |-> Format2f(row.principal_payment),
     interest_payment |-> Format2f(row.interest_payment),
     insurance_amount |-> Format2f(row.insurance_amount),
     total_payment |-> Format2f(row.total_payment)]

\* lines 63-66 and 76-83: the totals row
TotalRow(rows, lang) ==
    [month |-> get_translation("Total", lang),
     capital_beginning |-> Blank,
     principal_payment |-> Format2f(ColumnSum(rows, "principal_payment")),
     interest_payment |-> Format2f(ColumnSum(rows, "interest_payment")),
     insurance_amount |-> Format2f(ColumnSum(rows, "insurance_amount")),
     total_payment |-> Format2f(ColumnSum(rows, "total_payment"))]

\* lines 60-86: the DataFrame built from the rows of the loop
BuildTable(rows, lang) ==
    [columns |-> Columns(lang),
     rows |-> Append([i \in 1..Len(rows) |-> FormatRow(rows[i])], TotalRow(rows, lang))]

create_amortization_table(p, r, m, n, ins, lang) ==
    BuildTable(RunLoop(1, p, <<>>, r, m, n, ins).rows, lang)

\* pd.DataFrame()
EmptyTable == [columns |-> <<>>, rows |-> <<>>]

\* what a call ends with: an exception, or the returned dictionary
Raised(kind, message) == [raised |-> kind, message |-> message]
Returned(value) == [raised |-> "", value |-> value]

ValueErrorRaised(lang) ==
    Raised("ValueError", get_translation("Les valeurs doivent etre positives.", lang))
OverflowErrorRaised == Raised("OverflowError", "(34, 'Numerical result out of range')")

\* the dictionary of lines 37-44
ReturnValue(summary, table) ==
    [monthly_payment |-> summary.monthly_payment,
     total_cost |-> summary.total_cost,
     total_paid |-> summary.total_paid,
     cost_percentage |-> summary.cost_percentage,
     insurance_total_cost |-> summary.insurance_total_cost,
     amortization_table |-> table]

calculate_loan(p, t, n, ins, lang) ==
    IF InvalidInput(p, t, n) THEN ValueErrorRaised(lang)
    ELSE LET r == MonthlyRate(t) IN
         IF PowOverflows(Add(One, r), n) THEN OverflowErrorRaised
         ELSE LET m == MonthlyPaymentWithoutInsurance(p, r, n) IN
              Returned(ReturnValue(Summary(p, m, n, ins),
                                   create_amortization_table(p, r, TablePayment(m, ins), n, ins, lang)))

----------------------------------------------------------------------------
\* The session state and the callbacks of the widgets.

\* the bounds the widgets declare
PrincipalMin == 1000
DurationMonthsMin == 1
DurationYearsMin == 1
DurationYearsMax == 50
TaegMin == Q(1, 10)
InsuranceMin == Zero

\* {} and the state of a page that shows no error
EmptyDict == <<>>
NoError == <<>>

\* lines 99-104
update_insurance_percentage(amount, p) ==
    IF amount # Zero THEN Mul(Div(amount, p), R(100)) ELSE Zero

\* lines 106-111
update_insurance_amount(percentage, p) ==
    IF percentage # Zero THEN Mul(Div(percentage, R(100)), p) ELSE Zero

\* lines 113-116
update_duration_months(years) == Trunc(Mul(years, R(12)))

\* lines 118-121
update_duration_years(months) == R(RoundHalfEven(Q(months, 12)))

\* a handler that drops the stored summary when the calculation fails
CalculateHandler_ClearsOnError(outcome, old_loan_data, old_table) ==
    IF outcome.raised = ""
    THEN [loan_data |-> outcome.value,
          amortization_table |-> outcome.value.amortization_table,
          error_shown |-> NoError]
    ELSE [loan_data |-> EmptyDict,
          amortization_table |-> old_table,
          error_shown |-> <<"Erreur : ", outcome.message>>]

\* lines 240-247: what pressing Calculate stores and shows, given what
\* calculate_loan ended with
CalculateHandler(outcome, old_loan_data, old_table) ==
    IF outcome.raised = ""
    THEN [loan_data |-> outcome.value,
          amortization_table |-> outcome.value.amortization_table,
          error_shown |-> NoError]
    ELSE [loan_data |-> old_loan_data,
          amortization_table |-> old_table,
          error_shown |-> IF outcome.raised = "ValueError"
                          THEN <<"Erreur : ", outcome.message>>
                          ELSE <<"Une erreur inattendue s'est produite : ", outcome.message>>]

\* the values a user types into the widgets, within the widgets' bounds
PrincipalInputs == {x \in {R(1000), R(30000)} : Le(R(PrincipalMin), x)}
TaegInputs == {x \in {R(120), R(1200)} : Le(TaegMin, x)}
DurationMonthsInputs == {n \in (1..MaxMonths) \cup {6, 58, 700} : n >= DurationMonthsMin}
DurationYearsInputs == {y \in {1, 50} : y >= DurationYearsMin /\ y <= DurationYearsMax}
InsuranceAmountInputs == {x \in {Zero, R(30)} : Le(InsuranceMin, x)}
InsurancePercentageInputs == {x \in {Zero, One} : Le(InsuranceMin, x)}

\* the arguments direct callers of calculate_loan pass
PrincipalArgs == {R(-1000), R(0), R(1000), R(2500)}
TaegArgs == {R(-120), R(0), R(120), R(1200)}
DurationArgs == (-1)..MaxMonths
InsuranceArgs == {R(-10), R(0), R(25)}

NoCall == <<>>

\* lines 169-178, no call of the engine in progress
Init ==
    /\ language = "Francais"
    /\ insurance_amount = Zero
    /\ insurance_percentage = Zero
    /\ principal = R(30000)
    /\ taeg = Q(445, 100)
    /\ duration_months = 57
    /\ duration_years = Q(57, 12)
    /\ show_amortization_table = FALSE
    /\ amortization_table = EmptyTable
    /\ loan_data = EmptyDict
    /\ error_shown = NoError
    /\ pc = "idle"
    /\ args = NoCall
    /\ locals = NoCall
    /\ month = 0
    /\ remaining_balance = Zero
    /\ data = <<>>
    /\ result = NoCall
    /\ prev = NoCall

\* line 181: the language selectbox
SelectLanguage(l) ==
    /\ l # language
    /\ language' = l
    /\ error_shown' = NoError
    /\ UNCHANGED <<insurance_amount, insurance_percentage, principal, taeg,
                   duration_months, duration_years, show_amortization_table,
                   amortization_table, loan_data, frame>>

\* lines 188-194: the principal input, which has no callback
EditPrincipal(v) ==
    /\ v # principal
    /\ principal' = v
    /\ error_shown' = NoError
    /\ UNCHANGED <<language, insurance_amount, insurance_percentage, taeg,
                   duration_months, duration_years, show_amortization_table,
                   amortization_table, loan_data, frame>>

\* line 195
EditTaeg(v) ==
    /\ v # taeg
    /\ taeg' = v
    /\ error_shown' = NoError
    /\ UNCHANGED <<language, insurance_amount, insurance_percentage, principal,
                   duration_months, duration_years, show_amortization_table,
                   amortization_table, loan_data, frame>>

\* lines 200-206, on_change = update_duration_years
EditDurationMonths(v) ==
    /\ v # duration_months
    /\ duration_months' = v
    /\ duration_years' = update_duration_years(v)
    /\ error_shown' = NoError
    /\ UNCHANGED <<language, insurance_amount, insurance_percentage, principal, taeg,
                   show_amortization_table, amortization_table, loan_data, frame>>

\* lines 209-217, on_change = update_duration_months
EditDurationYears(v) ==
    /\ R(v) # duration_years
    /\ duration_years' = R(v)
    /\ duration_months' = update_duration_months(R(v))
    /\ error_shown' = NoError
    /\ UNCHANGED <<language, insurance_amount, insurance_percentage, principal, taeg,
                   show_amortization_table, amortization_table, loan_data, frame>>

\* lines 221-228, on_change = update_insurance_percentage
EditInsuranceAmount(v) ==
    /\ v # insurance_amount
    /\ insurance_amount' = v
    /\ insurance_percentage' = update_insurance_percentage(v, principal)
    /\ error_shown' = NoError
    /\ UNCHANGED <<language, principal, taeg, duration_months, duration_years,
                   show_amortization_table, amortization_table, loan_data, frame>>

\* lines 230-237, on_change = update_insurance_amount
EditInsurancePercentage(v) ==
    /\ v # insurance_percentage
    /\ insurance_percentage' = v
    /\ insurance_amount' = update_insurance_amount(v, principal)
    /\ error_shown' = NoError
    /\ UNCHANGED <<language, principal, taeg, duration_months, duration_years,
                   show_amortization_table, amortization_table, loan_data, frame>>

\* lines 240-247: the Calculate button.  The model runs the calculation for
\* the durations and the rates it can compute.
PressCalculate ==
    /\ duration_months <= MaxMonths
    /\ taeg \in TaegInputs
    /\ LET after == CalculateHandler(
                        calculate_loan(principal, taeg, duration_months, insurance_amount, language),
                        loan_data, amortization_table)
       IN  /\ loan_data' = after.loan_data
           /\ amortization_table' = after.amortization_table
           /\ error_shown' = after.error_shown
    /\ UNCHANGED <<language, insurance_amount, insurance_percentage, principal, taeg,
                   duration_months, duration_years, show_amortization_table, frame>>

\* lines 254-255: the button that shows or hides the table
PressShowTable ==
    /\ show_amortization_table' = ~show_amortization_table
    /\ error_shown' = NoError
    /\ UNCHANGED <<language, insurance_amount, insurance_percentage, principal, taeg,
                   duration_months, duration_years, amortization_table, loan_data, frame>>

Next ==
    \/ \E l \in Languages : SelectLanguage(l)
    \/ \E v \in PrincipalInputs : EditPrincipal(v)
    \/ \E v \in TaegInputs : EditTaeg(v)
    \/ \E v \in DurationMonthsInputs : EditDurationMonths(v)
    \/ \E v \in DurationYearsInputs : EditDurationYears(v)
    \/ \E v \in InsuranceAmountInputs : EditInsuranceAmount(v)
    \/ \E v \in InsurancePercentageInputs : EditInsurancePercentage(v)
    \/ PressCalculate
    \/ PressShowTable

Spec == Init /\ [][Next]_vars

----------------------------------------------------------------------------
\* calculate_loan called directly, one step of the amortization loop at a
\* time.

\* lines 22-32 and 48-49: the call up to the first iteration of the loop
Call(p, t, n, ins) ==
    /\ pc = "idle"
    /\ args' = [principal |-> p, taeg |-> t, duration_months |-> n, insurance_amount |-> ins]
    /\ IF InvalidInput(p, t, n)
       THEN /\ result' = ValueErrorRaised(language)
            /\ pc' = "returned"
            /\ UNCHANGED <<locals, month, remaining_balance, data>>
       ELSE IF PowOverflows(Add(One, MonthlyRate(t)), n)
       THEN /\ result' = OverflowErrorRaised
            /\ pc' = "returned"
            /\ UNCHANGED <<locals, month, remaining_balance, data>>
       ELSE LET r == MonthlyRate(t)
                m == MonthlyPaymentWithoutInsurance(p, r, n)
            IN  /\ locals' = [monthly_rate |-> r,
                              monthly_payment |-> TablePayment(m, ins),
                              summary |-> Summary(p, m, n, ins)]
                /\ month' = 1
                /\ remaining_balance' = p
                /\ data' = <<>>
                /\ pc' = "loop"
                /\ UNCHANGED result
    /\ UNCHANGED <<session, prev>>

\* lines 50-58: one iteration
LoopIteration ==
    /\ pc = "loop"
    /\ InRange(month, args.duration_months)
    /\ LET row == LoopRow(month, remaining_balance, locals.monthly_rate,
                          locals.monthly_payment, args.insurance_amount)
       IN  /\ data' = Append(data, row)
           /\ remaining_balance' = NextBalance(remaining_balance, row.principal_payment)
    /\ month' = month + 1
    /\ UNCHANGED <<session, pc, args, locals, result, prev>>

\* lines 60-86 and 37-44: the loop is over, the table is built and returned
LoopExit ==
    /\ pc = "loop"
    /\ ~InRange(month, args.duration_months)
    /\ result' = Returned(ReturnValue(locals.summary, BuildTable(data, language)))
    /\ pc' = "returned"
    /\ UNCHANGED <<session, args, locals, month, remaining_balance, data, prev>>

\* the caller has the result (or the exception); it may keep it to compare
\* a later call with
Return(keep) ==
    /\ pc = "returned"
    /\ prev' = IF keep THEN [args |-> args, result |-> result] ELSE prev
    /\ pc' = "idle"
    /\ args' = NoCall
    /\ locals' = NoCall
    /\ month' = 0
    /\ remaining_balance' = Zero
    /\ data' = <<>>
    /\ result' = NoCall
    /\ UNCHANGED session

\* the display language changes between two calls
LanguageChanges(l) ==
    /\ pc = "idle"
    /\ l # language
    /\ language' = l
    /\ UNCHANGED <<widgets, frame>>

EngineNext ==
    \/ \E p \in PrincipalArgs, t \in TaegArgs, n \in DurationArgs, ins \in InsuranceArgs :
            Call(p, t, n, ins)
    \/ LoopIteration
    \/ LoopExit
    \/ \E keep \in BOOLEAN : Return(keep)
    \/ \E l \in Languages : LanguageChanges(l)

EngineSpec == Init /\ [][EngineNext]_vars

----------------------------------------------------------------------------
\* Properties of calculate_loan, under EngineSpec.

\* the call has returned a dictionary
ReturnedOk == pc = "returned" /\ result.raised = ""
Table == result.value.amortization_table
MonthlyRows == SubSeq(Table.rows, 1, Len(Table.rows) - 1)
TotalsRow == Table.rows[Len(Table.rows)]

\* C1: a call ends with the ValueError of line 23, and with no summary and
\* no table, exactly when principal, taeg or duration_months is not
\* strictly positive; the insurance amount plays no part.
C1_InvalidInputIff ==
    pc = "returned" =>
        LET rejected == result.raised = "ValueError"
            nonpositive == \/ args.principal[1] <= 0
                           \/ args.taeg[1] <= 0
                           \/ args.duration_months <= 0
        IN  /\ rejected <=> nonpositive
            /\ rejected => DOMAIN result = {"raised", "message"}

C1_Witness ==
    /\ pc = "returned"
    /\ result.raised = "ValueError"
    /\ args.principal[1] > 0 /\ args.taeg[1] > 0 /\ args.duration_months = 0
    /\ args.insurance_amount[1] < 0

C4_TotalCostIsInterest ==
    ReturnedOk /\ args.insurance_amount[1] >= 0 =>
        result.value.total_cost = ColumnSum(data, "interest_payment")

\* C5: the table has one row per month, numbered 1, 2, ... in order, then
\* one totals row; the first row opens with the principal and the totals row
\* has a blank opening balance.
C5_TableShape ==
    ReturnedOk =>
        /\ Len(Table.rows) = args.duration_months + 1
        /\ \A i \in 1..args.duration_months : Table.rows[i].month = i
        /\ Table.rows[1].capital_beginning = Format2f(args.principal)
        /\ TotalsRow.month = "Total"
        /\ TotalsRow.capital_beginning = Blank

C5_Witness ==
    /\ ReturnedOk
    /\ args.duration_months >= 3
    /\ Len(Table.rows) = args.duration_months + 1
    /\ TotalsRow.capital_beginning = Blank

\* C6: a call with the arguments of an earlier call ends as that call did
\* (the same dictionary or the same exception), whatever happened between
\* the two.
C6_SameArgsSameResult ==
    pc = "returned" /\ prev # NoCall /\ prev.args = args =>
        /\ prev.result.raised = result.raised
        /\ result.raised = "" => prev.result.value = result.value

\* C8: every row's total due is the monthly payment of the summary (base
\* payment plus insurance); the total paid is the monthly payment times the
\* duration and is the sum the totals row shows; the totals row shows the
\* insurance total of the summary.
C8_TotalsAgree ==
    ReturnedOk =>
        LET v == result.value IN
        /\ \A i \in 1..Len(data) :
              /\ data[i].total_payment = v.monthly_payment
              /\ MonthlyRows[i].total_payment = Format2f(v.monthly_payment)
              /\ MonthlyRows[i].insurance_amount = Format2f(args.insurance_amount)
        /\ v.monthly_payment =
              Add(MonthlyPaymentWithoutInsurance(args.principal, MonthlyRate(args.taeg),
                                                 args.duration_months),
                  args.insurance_amount)
        /\ v.total_paid = Mul(v.monthly_payment, R(args.duration_months))
        /\ v.total_paid = ColumnSum(data, "total_payment")
        /\ TotalsRow.total_payment = Format2f(v.total_paid)
        /\ TotalsRow.insurance_amount = Format2f(v.insurance_total_cost)

C8_Witness ==
    /\ ReturnedOk
    /\ args.duration_months >= 2
    /\ args.insurance_amount[1] > 0
    /\ TotalsRow.total_payment = Format2f(result.value.total_paid)

\* the call made step by step ends as calculate_loan does
StepsAgree ==
    pc = "returned" =>
        result = calculate_loan(args.principal, args.taeg, args.duration_months,
                                args.insurance_amount, language)

----------------------------------------------------------------------------
\* Properties of the session state, under Spec.

\* C7: the two duration fields agree in every state: years is months / 12
\* rounded, months is years x 12, and years is within the widget's 1..50.
C7_DurationsConsistent ==
    /\ duration_years = R(RoundHalfEven(Q(duration_months, 12)))
    /\ R(duration_months) = Mul(duration_years, R(12))
    /\ Le(R(DurationYearsMin), duration_years)
    /\ Le(duration_years, R(DurationYearsMax))

\* the stored table is the one inside the stored loan_data
TableOfLoanData == loan_data # EmptyDict => amortization_table = loan_data.amortization_table

\* C9: a press of Calculate that ends in an exception (the page then shows
\* an error) leaves loan_data and amortization_table as they were, and
\* whenever loan_data is not empty the stored table is the table of that
\* loan_data.
C9_CalculateFrame ==
    /\ []TableOfLoanData
    /\ [][error_shown' # NoError => UNCHANGED <<loan_data, amortization_table>>]_vars

C9_Witness ==
    /\ error_shown # NoError
    /\ loan_data # EmptyDict
    /\ amortization_table = loan_data.amortization_table
    /\ language = "English"
    /\ amortization_table.columns[1] = "Mois"

\* C10: the insurance percentage is the insurance amount as a percentage of
\* the principal in every state, both being 0 together.
C10_InsuranceSynchronised ==
    /\ insurance_percentage = Mul(Div(insurance_amount, principal), R(100))
    /\ insurance_amount = Zero <=> insurance_percentage = Zero

====
